---- MODULE Spec2Model ----
(***************************************************************************)
(* Model of the tool-calling orchestration loop of mcp-web-host:           *)
(*   ChatHandler       (initChat, handleNewChat, generateAnswer,           *)
(*                      processToolCalls, filterToolArguments)             *)
(*   MCPClientManager  (initializeClients, getAllTools, getTool, callTool) *)
(*   DatabaseService   (the tool_approvals table)                          *)
(*                                                                         *)
(* Encoding of JavaScript data:                                            *)
(*  - a string that is used as a name is represented by the sequence of    *)
(*    its '.'-free segments, i.e. by the value of name.split(".");         *)
(*    "news.eu.search" is <<"news","eu","search">> and "" is <<"">>.       *)
(*    split(".") and join(".") are inverse bijections between strings and  *)
(*    non-empty sequences of '.'-free strings, so a + "." + b is a \o b.   *)
(*  - a JavaScript value is represented by its literal, as a TLA+ string:  *)
(*    "null", "undefined", "''" (the empty string), "0", "false", "'x'".   *)
(*  - an object (key -> value mapping) is a function from its own keys.    *)
(***************************************************************************)
EXTENDS Integers, Sequences, FiniteSets, TLC

\* ------------------------------------------------------------------------
\* Bounds of the model
\* ------------------------------------------------------------------------

\* Tool-call rounds after which the model service answers without tool calls.
MaxRounds == 1

\* Set and delete operations on the approval store that are followed.
MaxOps == 3

\* ------------------------------------------------------------------------
\* JavaScript values and objects
\* ------------------------------------------------------------------------

JSNull == "null"

JSUndefined == "undefined"

JSEmptyString == "''"

JSValues == {JSNull, JSUndefined, JSEmptyString, "0", "2", "false", "'x'"}

ArgKeys == {"a", "b", "q"}

\* The empty object {}.
EmptyObject == [k \in {} |-> JSNull]

\* All flat objects over the keys ks.
ObjectsOver(ks) == UNION {[d -> JSValues] : d \in SUBSET ks}

\* delete obj[key]
DeleteKey(obj, key) == [k \in (DOMAIN obj) \ {key} |-> obj[k]]

\* ------------------------------------------------------------------------
\* Argument Sanitizer: ChatHandler.filterToolArguments, given the required
\* set that its schema lookup produced.
\* ------------------------------------------------------------------------

\* Variant of IsNullish: the falsy test !value instead of the three strict
\* comparisons.
IsNullish_Falsy(value) ==
  value \in {JSNull, JSUndefined, JSEmptyString, "0", "false"}

\* value === null || value === undefined || value === ""
IsNullish(value) == value = JSNull \/ value = JSUndefined \/ value = JSEmptyString

\* The keys the for-loop deletes from the copy { ...args }.
StrippedKeys(args, requiredParams) ==
  {key \in DOMAIN args : IsNullish(args[key]) /\ key \notin requiredParams}

\* Variant of filterToolArguments: the loop stops after its first delete.
filterToolArguments_StopAfterDelete(args, requiredParams) ==
  IF StrippedKeys(args, requiredParams) = {} THEN args
  ELSE DeleteKey(args, CHOOSE key \in StrippedKeys(args, requiredParams) : TRUE)

filterToolArguments(args, requiredParams) ==
  [key \in (DOMAIN args) \ StrippedKeys(args, requiredParams) |-> args[key]]

\* ------------------------------------------------------------------------
\* Names, configuration and the remote tool servers
\* ------------------------------------------------------------------------

\* The empty string "" (its split(".") is [""]).
EmptyName == <<"">>

\* `${serverName}.${toolName}`
QualifiedName(serverName, toolName) == serverName \o toolName

\* config.mcp.servers: the descriptors handed to initializeClients, in order.
\* The second descriptor has no url.
ServerConfig ==
  << [name |-> <<"calc">>,       url |-> TRUE],
     [name |-> <<"local">>,      url |-> FALSE],
     [name |-> <<"calc", "eu">>, url |-> TRUE] >>

\* A session (Client) is identified by the descriptor it was connected for.
Sessions == 1..Len(ServerConfig)

\* What the server behind a session answers to listTools(): its tools, each
\* with its name and the required list of its inputSchema.
RemoteTools(session) ==
  CASE session = 1 -> << [name |-> <<"add">>, required |-> {"a", "b"}],
                         [name |-> <<"search">>, required |-> {"q"}],
                         [name |-> <<"eu", "search">>, required |-> {}] >>
    [] session = 3 -> << [name |-> <<"search">>, required |-> {}] >>
    [] OTHER -> << >>

\* ------------------------------------------------------------------------
\* The session registry: MCPClientManager.clients, a Map in insertion order,
\* as the sequence of its entries [name, session].
\* ------------------------------------------------------------------------

RegistryNames(registry) == {registry[i].name : i \in 1..Len(registry)}

\* this.clients.get(serverName); 0 stands for undefined.
ClientGet(registry, serverName) ==
  IF \E i \in 1..Len(registry) : registry[i].name = serverName
  THEN registry[CHOOSE i \in 1..Len(registry) : registry[i].name = serverName].session
  ELSE 0

\* this.clients.set(name, client): an existing key keeps its position.
ClientSet(registry, name, session) ==
  IF \E i \in 1..Len(registry) : registry[i].name = name
  THEN [i \in 1..Len(registry) |->
          IF registry[i].name = name THEN [name |-> name, session |-> session]
          ELSE registry[i]]
  ELSE Append(registry, [name |-> name, session |-> session])

\* libraryToolToMCPTool applied to every tool of a listTools() answer.
TaggedTools(session, serverName) ==
  [i \in 1..Len(RemoteTools(session)) |->
     [name |-> RemoteTools(session)[i].name,
      serverName |-> serverName,
      required |-> RemoteTools(session)[i].required]]

\* The result of getTool once listTools() has answered: the first tool of
\* that server whose name === toolName, or null; and from it the
\* requiredParams of filterToolArguments (?.inputSchema.required || []).
RequiredOfTool(session, toolName) ==
  LET tools == RemoteTools(session)
      hits == {i \in 1..Len(tools) : tools[i].name = toolName}
  IN IF hits = {} THEN {}
     ELSE tools[CHOOSE i \in hits : \A j \in hits : i <= j].required

\* MCPToolToTool: the function name of every listed tool.
MCPToolToTool(mcpTools) ==
  [i \in 1..Len(mcpTools) |-> QualifiedName(mcpTools[i].serverName, mcpTools[i].name)]

\* ------------------------------------------------------------------------
\* Parsing of a tool-call request (the map in processToolCalls)
\* ------------------------------------------------------------------------

\* tool.function.name.split(".")[0] || ""
ParseServerName(name) == <<name[1]>>

\* tool.function.name.split(".")[1] || ""
ParseToolName(name) == IF Len(name) >= 2 THEN <<name[2]>> ELSE EmptyName

\* Variant of IsInvalidToolCall: only the server name is tested.
IsInvalidToolCall_ServerOnly(attr) == attr.serverName = EmptyName

\* !toolCall.serverName || !toolCall.toolName
IsInvalidToolCall(attr) == attr.serverName = EmptyName \/ attr.toolName = EmptyName

\* ------------------------------------------------------------------------
\* What the model service and the tool servers may answer
\* ------------------------------------------------------------------------

\* The tool-call requests the model service may emit: function.name and
\* function.arguments.
CalcAdd ==
  [name |-> <<"calc", "add">>,
   arguments |-> [k \in {"a", "b", "q"} |->
                    IF k = "a" THEN "2" ELSE IF k = "b" THEN JSNull ELSE JSEmptyString]]

CalcEuSearch ==
  [name |-> <<"calc", "eu", "search">>, arguments |-> [k \in {"q"} |-> JSUndefined]]

NoSeparator == [name |-> <<"calc">>, arguments |-> EmptyObject]

NoServer == [name |-> <<"", "search">>, arguments |-> EmptyObject]

NoTool == [name |-> <<"calc", "">>, arguments |-> EmptyObject]

Requests == {CalcAdd, CalcEuSearch, NoSeparator, NoServer, NoTool}

\* message.tool_calls of a model response that asks for tools: one request,
\* or any request followed by a well-formed or a malformed one.
ToolCallLists ==
  {<<r>> : r \in Requests} \cup
  {<<r, s>> : r \in Requests, s \in {CalcAdd, NoSeparator}}

\* response.content of a successful client.callTool: a list of typed parts.
\* A part is [type, text, json]; json holds the JSON literal of the part's
\* json value, which is what JSON.stringify yields for it.
ToolResults ==
  { << [type |-> "text", text |-> "X", json |-> "null"] >>,
    << [type |-> "json", text |-> "", json |-> "{\"n\":1}"] >> }

\* JSON.stringify of one part.
PartJSON(part) ==
  IF part.type = "text"
  THEN "{\"type\":\"text\",\"text\":\"" \o part.text \o "\"}"
  ELSE IF part.type = "json"
  THEN "{\"type\":\"json\",\"json\":" \o part.json \o "}"
  ELSE "{\"type\":\"" \o part.type \o "\"}"

RECURSIVE JoinParts(_)
\* The parts of a list, serialized and separated by commas.
JoinParts(content) ==
  IF content = << >> THEN ""
  ELSE IF Len(content) = 1 THEN PartJSON(content[1])
  ELSE PartJSON(content[1]) \o "," \o JoinParts(Tail(content))

\* A result that is not a list is represented by a function on {0} that
\* holds its JSON literal; a list by the sequence of its parts.
NotAList(literal) == [i \in {0} |-> literal]

\* Array.isArray(content)
IsArray(content) == 0 \notin DOMAIN content

\* JSON.stringify of a tool result.
JSONStringify(content) ==
  IF IsArray(content) THEN "[" \o JoinParts(content) \o "]" ELSE content[0]

\* ChatHandler.extractToolContent
extractToolContent(content) ==
  IF IsArray(content) /\ Len(content) > 0
  THEN IF content[1].type = "text" THEN content[1].text
       ELSE IF content[1].type = "json" THEN content[1].json
       ELSE JSONStringify(content)
  ELSE JSONStringify(content)

\* The parts a tool result may be made of: texts, json values, an image.
ResultParts ==
  { [type |-> "text", text |-> "X", json |-> "null"],
    [type |-> "text", text |-> "", json |-> "null"],
    [type |-> "text", text |-> "{}", json |-> "null"],
    [type |-> "json", text |-> "", json |-> "{\"n\":1}"],
    [type |-> "json", text |-> "", json |-> "\"X\""],
    [type |-> "image", text |-> "", json |-> "null"] }

\* Every shape response.content may have: the lists of at most two parts,
\* the empty list included, and values that are not lists (an object, a
\* string, null).
ReductionResults ==
  {<< >>} \cup {<<p>> : p \in ResultParts}
          \cup {<<p, q>> : p \in ResultParts, q \in ResultParts}
          \cup {NotAList("{\"error\":\"e\"}"), NotAList("\"X\""), NotAList("null")}

\* The text of the request body of POST /chat.
UserTexts == {"", "hi"}

\* ------------------------------------------------------------------------
\* State
\* ------------------------------------------------------------------------

VARIABLES
  clients,         \* MCPClientManager.clients: sequence of [name, session]
  connIdx,         \* initializeClients: index of the descriptor being connected
  tool_approvals,  \* rows of the tool_approvals table
  chats,           \* per POST /chat request: the state of its handleNewChat
  calls,           \* history of the client.callTool requests sent to sessions
  allowed,         \* the POST /chat requests that may arrive
  connLog,         \* per descriptor: outcome of its connection attempt
  sanArgs,         \* sanitizer harness: args
  sanRequired,     \* sanitizer harness: requiredParams
  sanOnce,         \* sanitizer harness: filterToolArguments(args)
  sanTwice,        \* sanitizer harness: filterToolArguments of sanOnce
  sanPc,           \* sanitizer harness: number of applications done
  toolResult,      \* reduction harness: what callTool returned
  toolMessage,     \* reduction harness: content of the tool message pushed
  redPc,           \* reduction harness: which processToolCalls pushed it
  approvalOps,     \* history of the set/delete operations on tool_approvals
  shutdowns        \* parity of the number of disconnectAll calls so far

sanVars == <<sanArgs, sanRequired, sanOnce, sanTwice, sanPc>>

redVars == <<toolResult, toolMessage, redPc>>

opsVars == <<approvalOps, shutdowns>>

\* What the handlers of the host leave alone.
auxVars == <<sanArgs, sanRequired, sanOnce, sanTwice, sanPc,
             toolResult, toolMessage, redPc, approvalOps, shutdowns>>

hostVars == <<clients, connIdx, tool_approvals, chats, calls, allowed, connLog>>

vars == <<clients, connIdx, tool_approvals, chats, calls, allowed, connLog,
          sanArgs, sanRequired, sanOnce, sanTwice, sanPc,
          toolResult, toolMessage, redPc, approvalOps, shutdowns>>

ChatIds == {1, 2}

SystemMessage == [role |-> "system", content |-> "system-prompt", tool_calls |-> << >>]

\* A request that has not arrived yet. registeredAtStart records the names
\* in the registry when getAllTools is called for the request.
IdleChat ==
  [pc |-> "idle", userText |-> "", registeredAtStart |-> {},
   messages |-> << >>, hasTools |-> FALSE,
   tools |-> << >>, listPos |-> 0, pending |-> [name |-> EmptyName, session |-> 0],
   allTools |-> << >>, listLog |-> << >>, attrs |-> << >>, idx |-> 0,
   newMessages |-> << >>, round |-> 0, modelCalls |-> 0, response |-> "",
   answer |-> "", error |-> "", errorAt |-> 0]

\* A boolean bound to the BOOLEAN column requiresApproval is stored as the
\* integer 1 or 0.
SqlBoolean(requiresApproval) == IF requiresApproval THEN 1 ELSE 0

\* DatabaseService.getToolApproval: the rows the SELECT matches; none is null.
getToolApproval(table, serverName, toolName) ==
  {row \in table : row.serverName = serverName /\ row.toolName = toolName}

\* DatabaseService.toolRequiresApproval, approval ? approval.requiresApproval
\* : false, as the condition it yields: a stored 1 is truthy, a stored 0 and
\* the false of a missing row are not.
toolRequiresApproval(table, serverName, toolName) ==
  \E row \in getToolApproval(table, serverName, toolName) : row.requiresApproval = 1

\* ------------------------------------------------------------------------
\* MCPClientManager.initializeClients
\* ------------------------------------------------------------------------

RECURSIVE NextWithUrl(_)
\* The for-loop skips descriptors without url: the first index >= i of a
\* descriptor with url, or Len(ServerConfig) + 1.
NextWithUrl(i) ==
  IF i > Len(ServerConfig) THEN i
  ELSE IF ServerConfig[i].url THEN i
  ELSE NextWithUrl(i + 1)

\* Variant of ConnectReturns: the try/catch encloses the whole for-loop, so the
\* first failed attempt ends initializeClients.
ConnectReturns_StopOnFailure(ok) ==
  /\ connIdx <= Len(ServerConfig)
  /\ clients' = IF ok THEN ClientSet(clients, ServerConfig[connIdx].name, connIdx)
                ELSE clients
  /\ connIdx' = IF ok THEN NextWithUrl(connIdx + 1) ELSE Len(ServerConfig) + 1
  /\ connLog' = [connLog EXCEPT ![connIdx] = IF ok THEN "connected" ELSE "failed"]
  /\ UNCHANGED <<tool_approvals, chats, calls, allowed>>
  /\ UNCHANGED auxVars

\* await client.connect(transport) of descriptor connIdx returns or throws.
ConnectReturns(ok) ==
  /\ connIdx <= Len(ServerConfig)
  /\ clients' = IF ok THEN ClientSet(clients, ServerConfig[connIdx].name, connIdx)
                ELSE clients
  /\ connIdx' = NextWithUrl(connIdx + 1)
  /\ connLog' = [connLog EXCEPT ![connIdx] = IF ok THEN "connected" ELSE "failed"]
  /\ UNCHANGED <<tool_approvals, chats, calls, allowed>>
  /\ UNCHANGED auxVars

\* ------------------------------------------------------------------------
\* ChatHandler.initChat and MCPClientManager.getAllTools
\* ------------------------------------------------------------------------

\* Variant of AfterListing: the loop runs over a copy of the registry taken
\* when getAllTools was called, so an entry set during the listing is not
\* queried.
AfterListing_OverSnapshot(ch, registry) ==
  IF /\ ch.listPos <= Len(registry)
     /\ registry[ch.listPos].name \in ch.registeredAtStart
  THEN [ch EXCEPT !.pending = registry[ch.listPos]]
  ELSE [ch EXCEPT !.pc = "awaitModel",
                  !.tools = MCPToolToTool(ch.allTools),
                  !.hasTools = Len(ch.allTools) > 0,
                  !.messages = << SystemMessage,
                                  [role |-> "user", content |-> ch.userText,
                                   tool_calls |-> << >>] >>,
                  !.modelCalls = @ + 1]

\* Variant of AfterListing: chatOptions.tools is set without the length
\* test, so a request without tools carries an empty tool list.
AfterListing_AlwaysTools(ch, registry) ==
  IF ch.listPos <= Len(registry) THEN [ch EXCEPT !.pending = registry[ch.listPos]]
  ELSE [ch EXCEPT !.pc = "awaitModel",
                  !.tools = MCPToolToTool(ch.allTools),
                  !.hasTools = TRUE,
                  !.messages = << SystemMessage,
                                  [role |-> "user", content |-> ch.userText,
                                   tool_calls |-> << >>] >>,
                  !.modelCalls = @ + 1]

\* getAllTools after the listTools() of entry listPos - 1 was handled: either
\* the next entry of the registry is queried (pending), or the loop is over,
\* initChat builds chatOptions (tools only if there are any), handleNewChat pushes the
\* user message and generateAnswer invokes the model.
AfterListing(ch, registry) ==
  IF ch.listPos <= Len(registry) THEN [ch EXCEPT !.pending = registry[ch.listPos]]
  ELSE [ch EXCEPT !.pc = "awaitModel",
                  !.tools = MCPToolToTool(ch.allTools),
                  !.hasTools = Len(ch.allTools) > 0,
                  !.messages = << SystemMessage,
                                  [role |-> "user", content |-> ch.userText,
                                   tool_calls |-> << >>] >>,
                  !.modelCalls = @ + 1]

\* Variant of handleNewChat: the test of the message comes after initChat, so
\* an empty message is only rejected once the tool servers were queried.
handleNewChat_NoInputTest(c, message) ==
  /\ c \in allowed
  /\ chats[c].pc = "idle"
  /\ chats' = [chats EXCEPT ![c] =
       AfterListing([@ EXCEPT !.pc = "listing", !.userText = message,
                              !.registeredAtStart = RegistryNames(clients),
                              !.listPos = 1], clients)]
  /\ UNCHANGED <<clients, connIdx, tool_approvals, calls, allowed, connLog>>
  /\ UNCHANGED auxVars

\* POST /chat: handleNewChat(message) up to its first await.
handleNewChat(c, message) ==
  /\ c \in allowed
  /\ chats[c].pc = "idle"
  /\ chats' = [chats EXCEPT ![c] =
       IF message = ""
       THEN [@ EXCEPT !.pc = "failed", !.error = "Message is required"]
       ELSE AfterListing([@ EXCEPT !.pc = "listing", !.userText = message,
                                   !.registeredAtStart = RegistryNames(clients),
                                   !.listPos = 1], clients)]
  /\ UNCHANGED <<clients, connIdx, tool_approvals, calls, allowed, connLog>>
  /\ UNCHANGED auxVars

\* Variant of ListToolsReturns: the try/catch encloses the whole for-loop, so
\* a failed query ends the listing with nothing collected.
ListToolsReturns_FailureDiscards(c, ok) ==
  /\ chats[c].pc = "listing"
  /\ LET entry == chats[c].pending
         ch == [chats[c] EXCEPT
                  !.allTools = IF ok THEN @ \o TaggedTools(entry.session, entry.name)
                               ELSE << >>,
                  !.listLog = Append(@, [name |-> entry.name,
                                         session |-> entry.session, ok |-> ok]),
                  !.listPos = IF ok THEN @ + 1 ELSE Len(clients) + 1]
     IN chats' = [chats EXCEPT ![c] = AfterListing(ch, clients)]
  /\ UNCHANGED <<clients, connIdx, tool_approvals, calls, allowed, connLog>>
  /\ UNCHANGED auxVars

\* getAllTools: await client.listTools() of registry entry listPos returns
\* (ok) or throws (caught and logged).
ListToolsReturns(c, ok) ==
  /\ chats[c].pc = "listing"
  /\ LET entry == chats[c].pending
         ch == [chats[c] EXCEPT
                  !.allTools = IF ok THEN @ \o TaggedTools(entry.session, entry.name)
                               ELSE @,
                  !.listLog = Append(@, [name |-> entry.name,
                                         session |-> entry.session, ok |-> ok]),
                  !.listPos = @ + 1]
     IN chats' = [chats EXCEPT ![c] = AfterListing(ch, clients)]
  /\ UNCHANGED <<clients, connIdx, tool_approvals, calls, allowed, connLog>>
  /\ UNCHANGED auxVars

\* ------------------------------------------------------------------------
\* ChatHandler.processToolCalls and MCPClientManager.callTool
\* ------------------------------------------------------------------------

\* One element of `attributes`: the parsed names and args, which is the
\* promise returned by the async filterToolArguments (it is not awaited).
\* lookup is the session whose listTools() the promise's getTool awaits, 0
\* when getTool found no client and returned null.
Attribute(request, registry) ==
  [name |-> request.name,
   arguments |-> request.arguments,
   serverName |-> ParseServerName(request.name),
   toolName |-> ParseToolName(request.name),
   lookup |-> ClientGet(registry, ParseServerName(request.name)),
   args |-> [state |-> "pending", value |-> EmptyObject]]

\* Promises whose getTool returned null without a remote query are fulfilled
\* (with requiredParams = []) as soon as the running code yields.
SettleLocal(attr) ==
  IF attr.lookup = 0 /\ attr.args.state = "pending"
  THEN [attr EXCEPT !.args = [state |-> "fulfilled",
                              value |-> filterToolArguments(attr.arguments, {})]]
  ELSE attr

RECURSIVE NextValid(_, _)
\* The for-loop `continue`s over invalid tool calls: the first index >= i of
\* a tool call with both names, or Len(attrs) + 1.
NextValid(attrs, i) ==
  IF i > Len(attrs) THEN i
  ELSE IF IsInvalidToolCall(attrs[i]) THEN NextValid(attrs, i + 1)
  ELSE i

\* The value callTool receives as args and what client.callTool puts on the
\* wire for it: toolCall.args is the Promise object itself, whose JSON
\* serialization is {} whatever its state.
HandedArgs(attr) == [kind |-> "Promise", state |-> attr.args.state]

WireArguments(handed) ==
  IF handed.kind = "Promise" THEN EmptyObject ELSE handed.value

\* The client.callTool request callTool sends for attribute j of chat c.
CallRecord(c, ch, j, registry, table) ==
  [chat |-> c, round |-> ch.round, index |-> j,
   request |-> [name |-> ch.attrs[j].name, arguments |-> ch.attrs[j].arguments],
   session |-> ClientGet(registry, ch.attrs[j].serverName),
   toolName |-> ch.attrs[j].toolName,
   args |-> HandedArgs(ch.attrs[j]),
   arguments |-> WireArguments(HandedArgs(ch.attrs[j])),
   requiresApproval |-> toolRequiresApproval(table, ch.attrs[j].serverName,
                                             ch.attrs[j].toolName),
   outcome |-> "pending", content |-> << >>]

RECURSIVE NextDispatchable(_, _, _)
\* The first index >= i of a tool call with both names and a registered
\* server, or Len(attrs) + 1.
NextDispatchable(attrs, i, registry) ==
  IF i > Len(attrs) THEN i
  ELSE IF IsInvalidToolCall(attrs[i]) \/ ClientGet(registry, attrs[i].serverName) = 0
  THEN NextDispatchable(attrs, i + 1, registry)
  ELSE i

\* Variant of ContinueRound: the error of callTool for a server without client
\* is caught in the loop and the request is skipped.
ContinueRound_SkipUnknown(c, ch, registry, table, log) ==
  LET j == NextDispatchable(ch.attrs, ch.idx, registry) IN
  IF j > Len(ch.attrs)
  THEN [chat |-> [ch EXCEPT !.idx = j, !.pc = "awaitModel",
                            !.messages = @ \o ch.newMessages,
                            !.modelCalls = @ + 1],
        calls |-> log]
  ELSE [chat |-> [ch EXCEPT !.idx = j, !.pc = "awaitTool"],
        calls |-> Append(log, CallRecord(c, ch, j, registry, table))]

\* Variant of ContinueRound: generateAnswer does not recurse; at the end of the
\* request list the conversation returns without another model invocation.
ContinueRound_SingleRound(c, ch, registry, table, log) ==
  LET j == NextValid(ch.attrs, ch.idx) IN
  IF j > Len(ch.attrs)
  THEN [chat |-> [ch EXCEPT !.idx = j, !.pc = "done",
                            !.messages = @ \o ch.newMessages],
        calls |-> log]
  ELSE IF ClientGet(registry, ch.attrs[j].serverName) = 0
  THEN [chat |-> [ch EXCEPT !.idx = j, !.pc = "failed",
                            !.error = "No client found for server", !.errorAt = j],
        calls |-> log]
  ELSE [chat |-> [ch EXCEPT !.idx = j, !.pc = "awaitTool"],
        calls |-> Append(log, CallRecord(c, ch, j, registry, table))]

\* The sessions getAllTools queried for chat ch, as a registry.
ListedSessions(ch) ==
  [i \in 1..Len(ch.listLog) |->
     [name |-> ch.listLog[i].name, session |-> ch.listLog[i].session]]

\* Variant of ContinueRound: callTool uses the sessions the conversation
\* listed its tools from, not the registry at the time of the call.
ContinueRound_ListedSessions(c, ch, registry, table, log) ==
  LET j == NextValid(ch.attrs, ch.idx) IN
  IF j > Len(ch.attrs)
  THEN [chat |-> [ch EXCEPT !.idx = j, !.pc = "awaitModel",
                            !.messages = @ \o ch.newMessages,
                            !.modelCalls = @ + 1],
        calls |-> log]
  ELSE IF ClientGet(ListedSessions(ch), ch.attrs[j].serverName) = 0
  THEN [chat |-> [ch EXCEPT !.idx = j, !.pc = "failed",
                            !.error = "No client found for server", !.errorAt = j],
        calls |-> log]
  ELSE [chat |-> [ch EXCEPT !.idx = j, !.pc = "awaitTool"],
        calls |-> Append(log, CallRecord(c, ch, j, ListedSessions(ch), table))]

\* processToolCalls from loop index ch.idx up to its next await: invalid tool
\* calls are skipped; callTool throws when the server has no client; else the
\* remote call is sent; at the end of the list the new messages are
\* concatenated and generateAnswer invokes the model again. The result is the
\* new state of the chat and the new history of remote calls.
ContinueRound(c, ch, registry, table, log) ==
  LET j == NextValid(ch.attrs, ch.idx) IN
  IF j > Len(ch.attrs)
  THEN [chat |-> [ch EXCEPT !.idx = j, !.pc = "awaitModel",
                            !.messages = @ \o ch.newMessages,
                            !.modelCalls = @ + 1],
        calls |-> log]
  ELSE IF ClientGet(registry, ch.attrs[j].serverName) = 0
  THEN [chat |-> [ch EXCEPT !.idx = j, !.pc = "failed",
                            !.error = "No client found for server", !.errorAt = j],
        calls |-> log]
  ELSE [chat |-> [ch EXCEPT !.idx = j, !.pc = "awaitTool"],
        calls |-> Append(log, CallRecord(c, ch, j, registry, table))]

\* The response.content of the remote call chat c awaits.
RecordContent(log, c, content) ==
  [k \in 1..Len(log) |->
     IF log[k].chat = c /\ log[k].outcome = "pending"
     THEN [log[k] EXCEPT !.content = content] ELSE log[k]]

\* The outcome of the remote call chat c awaits.
MarkOutcome(log, c, outcome) ==
  [k \in 1..Len(log) |->
     IF log[k].chat = c /\ log[k].outcome = "pending"
     THEN [log[k] EXCEPT !.outcome = outcome] ELSE log[k]]

\* ------------------------------------------------------------------------
\* ChatHandler.generateAnswer
\* ------------------------------------------------------------------------

\* chatResponse.message?.content || "" for a content that is a string: the
\* only falsy string is the empty one.
ContentOrEmpty(content) == IF content = "" THEN "" ELSE content

\* Variant of ModelAnswers: the final message is pushed to the conversation
\* before its content is returned.
ModelAnswers_PushesAnswer(c, content) ==
  /\ chats[c].pc = "awaitModel"
  /\ chats' = [chats EXCEPT ![c] =
       [@ EXCEPT !.pc = "done", !.response = content,
                 !.answer = ContentOrEmpty(content),
                 !.messages = Append(@, [role |-> "assistant", content |-> content,
                                         tool_calls |-> << >>])]]
  /\ UNCHANGED <<clients, connIdx, tool_approvals, calls, allowed, connLog>>
  /\ UNCHANGED auxVars

\* await this.ollama.chat(chatOptions) returns a message without tool calls
\* (response is its content): generateAnswer returns the content.
ModelAnswers(c, content) ==
  /\ chats[c].pc = "awaitModel"
  /\ chats' = [chats EXCEPT ![c] =
       [@ EXCEPT !.pc = "done", !.response = content,
                 !.answer = ContentOrEmpty(content)]]
  /\ UNCHANGED <<clients, connIdx, tool_approvals, calls, allowed, connLog>>
  /\ UNCHANGED auxVars

\* await this.ollama.chat(chatOptions) returns a message with tool calls:
\* the message is pushed, processToolCalls maps the requests to attributes
\* (starting one filterToolArguments each) and runs its loop.
ModelRequestsTools(c, toolCalls) ==
  /\ chats[c].pc = "awaitModel"
  /\ chats[c].round < MaxRounds
  /\ LET ch == [chats[c] EXCEPT
                  !.messages = Append(@, [role |-> "assistant", content |-> "",
                                          tool_calls |-> toolCalls]),
                  !.attrs = [i \in 1..Len(toolCalls) |-> Attribute(toolCalls[i], clients)],
                  !.idx = 1,
                  !.newMessages = << >>,
                  !.round = @ + 1]
         next == ContinueRound(c, ch, clients, tool_approvals, calls)
     IN /\ chats' = [chats EXCEPT ![c] =
              [next.chat EXCEPT !.attrs = [i \in 1..Len(ch.attrs) |-> SettleLocal(ch.attrs[i])]]]
        /\ calls' = next.calls
  /\ UNCHANGED <<clients, connIdx, tool_approvals, allowed, connLog>>
  /\ UNCHANGED auxVars

\* await this.ollama.chat(chatOptions) throws.
ModelFails(c) ==
  /\ chats[c].pc = "awaitModel"
  /\ chats' = [chats EXCEPT ![c] = [@ EXCEPT !.pc = "failed", !.error = "chat failed"]]
  /\ UNCHANGED <<clients, connIdx, tool_approvals, calls, allowed, connLog>>
  /\ UNCHANGED auxVars

\* Variant of ToolReturns: the tool message is pushed to the conversation
\* itself, not to the list processToolCalls returns.
ToolReturns_PushesToConversation(c, content) ==
  /\ chats[c].pc = "awaitTool"
  /\ LET ch == [chats[c] EXCEPT
                  !.messages = Append(@, [role |-> "tool",
                                          content |-> extractToolContent(content),
                                          tool_calls |-> << >>]),
                  !.idx = @ + 1]
         next == ContinueRound(c, ch, clients, tool_approvals,
                               MarkOutcome(RecordContent(calls, c, content),
                                           c, "returned"))
     IN /\ chats' = [chats EXCEPT ![c] = next.chat]
        /\ calls' = next.calls
  /\ UNCHANGED <<clients, connIdx, tool_approvals, allowed, connLog>>
  /\ UNCHANGED auxVars

\* Variant of ToolReturns: the list the tool messages are pushed to is a
\* field of the handler, shared by every processToolCalls that is running.
ToolReturns_SharedList(c, content) ==
  /\ chats[c].pc = "awaitTool"
  /\ LET message == [role |-> "tool", content |-> extractToolContent(content),
                     tool_calls |-> << >>]
         ch == [chats[c] EXCEPT !.newMessages = Append(@, message), !.idx = @ + 1]
         next == ContinueRound(c, ch, clients, tool_approvals,
                               MarkOutcome(RecordContent(calls, c, content),
                                           c, "returned"))
     IN /\ chats' = [d \in ChatIds |->
                       IF d = c THEN next.chat
                       ELSE IF chats[d].pc = "awaitTool"
                       THEN [chats[d] EXCEPT !.newMessages = Append(@, message)]
                       ELSE chats[d]]
        /\ calls' = next.calls
  /\ UNCHANGED <<clients, connIdx, tool_approvals, allowed, connLog>>
  /\ UNCHANGED auxVars

\* Variant of ToolReturns: the tool message is put in front of the list
\* (unshift), so the list is in reverse request order.
ToolReturns_Unshifts(c, content) ==
  /\ chats[c].pc = "awaitTool"
  /\ LET ch == [chats[c] EXCEPT
                  !.newMessages = <<[role |-> "tool",
                                     content |-> extractToolContent(content),
                                     tool_calls |-> << >>]>> \o @,
                  !.idx = @ + 1]
         next == ContinueRound(c, ch, clients, tool_approvals,
                               MarkOutcome(RecordContent(calls, c, content),
                                           c, "returned"))
     IN /\ chats' = [chats EXCEPT ![c] = next.chat]
        /\ calls' = next.calls
  /\ UNCHANGED <<clients, connIdx, tool_approvals, allowed, connLog>>
  /\ UNCHANGED auxVars

\* await client.callTool(...) returns response.content: the tool message is
\* pushed and the loop goes on.
ToolReturns(c, content) ==
  /\ chats[c].pc = "awaitTool"
  /\ LET ch == [chats[c] EXCEPT
                  !.newMessages = Append(@, [role |-> "tool",
                                             content |-> extractToolContent(content),
                                             tool_calls |-> << >>]),
                  !.idx = @ + 1]
         next == ContinueRound(c, ch, clients, tool_approvals,
                               MarkOutcome(RecordContent(calls, c, content),
                                           c, "returned"))
     IN /\ chats' = [chats EXCEPT ![c] = next.chat]
        /\ calls' = next.calls
  /\ UNCHANGED <<clients, connIdx, tool_approvals, allowed, connLog>>
  /\ UNCHANGED auxVars

\* Variant of ToolFails: the loop catches the error of the remote call and
\* goes on with the next request.
ToolFails_Swallowed(c) ==
  /\ chats[c].pc = "awaitTool"
  /\ LET ch == [chats[c] EXCEPT !.idx = @ + 1]
         next == ContinueRound(c, ch, clients, tool_approvals,
                               MarkOutcome(calls, c, "threw"))
     IN /\ chats' = [chats EXCEPT ![c] = next.chat]
        /\ calls' = next.calls
  /\ UNCHANGED <<clients, connIdx, tool_approvals, allowed, connLog>>
  /\ UNCHANGED auxVars

\* await client.callTool(...) throws: callTool logs and rethrows, nothing
\* catches it up to the POST /chat handler.
ToolFails(c) ==
  /\ chats[c].pc = "awaitTool"
  /\ chats' = [chats EXCEPT ![c] =
       [@ EXCEPT !.pc = "failed", !.error = "callTool failed",
                 !.errorAt = chats[c].idx]]
  /\ calls' = MarkOutcome(calls, c, "threw")
  /\ UNCHANGED <<clients, connIdx, tool_approvals, allowed, connLog>>
  /\ UNCHANGED auxVars

\* Variant of FilterSettles: the for-loop deletes from args itself, not from
\* a copy, so the arguments object of the request, which the assistant
\* message of the round holds too, loses the stripped keys.
FilterSettles_InPlace(c, i, ok) ==
  /\ chats[c].pc = "awaitTool"
  /\ i \in 1..Len(chats[c].attrs)
  /\ chats[c].attrs[i].args.state = "pending"
  /\ LET attr == chats[c].attrs[i]
         required == RequiredOfTool(attr.lookup, attr.toolName)
         filtered == filterToolArguments(attr.arguments, required)
         last == Len(chats[c].messages)
     IN chats' = [chats EXCEPT
          ![c].attrs[i].args =
             IF ok THEN [state |-> "fulfilled", value |-> filtered]
             ELSE [state |-> "rejected", value |-> EmptyObject],
          ![c].attrs[i].arguments = IF ok THEN filtered ELSE @,
          ![c].messages[last].tool_calls[i].arguments = IF ok THEN filtered ELSE @]
  /\ UNCHANGED <<clients, connIdx, tool_approvals, calls, allowed, connLog>>
  /\ UNCHANGED auxVars

\* filterToolArguments of request i: its await getTool(...) is over, because
\* the listTools() of the looked-up session returned (ok) or threw. Only
\* followed while the round that created the promise is running.
FilterSettles(c, i, ok) ==
  /\ chats[c].pc = "awaitTool"
  /\ i \in 1..Len(chats[c].attrs)
  /\ chats[c].attrs[i].args.state = "pending"
  /\ LET attr == chats[c].attrs[i]
         required == RequiredOfTool(attr.lookup, attr.toolName)
     IN chats' = [chats EXCEPT ![c].attrs[i].args =
          IF ok THEN [state |-> "fulfilled",
                      value |-> filterToolArguments(attr.arguments, required)]
          ELSE [state |-> "rejected", value |-> EmptyObject]]
  /\ UNCHANGED <<clients, connIdx, tool_approvals, calls, allowed, connLog>>
  /\ UNCHANGED auxVars

\* ------------------------------------------------------------------------
\* Specification of the host: one POST /chat request, while
\* initializeClients may still be running.
\* ------------------------------------------------------------------------

\* The tool_approvals tables the process may find in config/settings.db.
StoredApprovals ==
  { [serverName |-> <<"calc">>, toolName |-> <<"add">>, requiresApproval |-> 1],
    [serverName |-> <<"calc">>, toolName |-> <<"eu">>, requiresApproval |-> 0] }

SanIdle ==
  /\ sanArgs = EmptyObject
  /\ sanRequired = {}
  /\ sanOnce = EmptyObject
  /\ sanTwice = EmptyObject
  /\ sanPc = 0

RedIdle ==
  /\ toolResult = << >>
  /\ toolMessage = ""
  /\ redPc = "idle"

OpsIdle ==
  /\ approvalOps = << >>
  /\ shutdowns = 0

HostInit ==
  /\ clients = << >>
  /\ connIdx = NextWithUrl(1)
  /\ connLog = [d \in 1..Len(ServerConfig) |-> "none"]
  /\ tool_approvals = StoredApprovals
  /\ chats = [c \in ChatIds |-> IdleChat]
  /\ calls = << >>

Init ==
  /\ HostInit
  /\ allowed = {1}
  /\ SanIdle
  /\ RedIdle
  /\ OpsIdle

Next ==
  \/ \E ok \in BOOLEAN : ConnectReturns(ok)
  \/ \E c \in ChatIds, message \in UserTexts : handleNewChat(c, message)
  \/ \E c \in ChatIds, ok \in BOOLEAN : ListToolsReturns(c, ok)
  \/ \E c \in ChatIds, content \in {"", "answer"} : ModelAnswers(c, content)
  \/ \E c \in ChatIds, toolCalls \in ToolCallLists : ModelRequestsTools(c, toolCalls)
  \/ \E c \in ChatIds : ModelFails(c)
  \/ \E c \in ChatIds, content \in ToolResults : ToolReturns(c, content)
  \/ \E c \in ChatIds : ToolFails(c)
  \/ \E c \in ChatIds : \E i \in DOMAIN chats[c].attrs, ok \in BOOLEAN : FilterSettles(c, i, ok)

Spec == Init /\ [][Next]_vars

\* ------------------------------------------------------------------------
\* Specification of the host with responding services: every awaited call of
\* a handler (ollama.chat, client.listTools, client.callTool) eventually
\* returns or throws, and the event loop then resumes the handler.
\* ------------------------------------------------------------------------

\* The model responses with tool calls followed here: a request to each
\* server, a malformed request followed by a well-formed one, and two
\* well-formed requests.
RoutineToolCalls ==
  {<<CalcAdd>>, <<CalcEuSearch>>, <<NoSeparator, CalcAdd>>, <<CalcAdd, CalcAdd>>}

\* The awaited this.ollama.chat of chat c settles.
ModelResponds(c) ==
  \/ \E content \in {"", "answer"} : ModelAnswers(c, content)
  \/ \E toolCalls \in RoutineToolCalls : ModelRequestsTools(c, toolCalls)
  \/ ModelFails(c)

\* The awaited client.callTool of chat c settles.
ToolResponds(c) ==
  \/ \E content \in ToolResults : ToolReturns(c, content)
  \/ ToolFails(c)

\* The awaited client.listTools of chat c settles.
ListingResponds(c) == \E ok \in BOOLEAN : ListToolsReturns(c, ok)

Fairness ==
  \A c \in ChatIds :
     /\ WF_vars(ModelResponds(c))
     /\ WF_vars(ToolResponds(c))
     /\ WF_vars(ListingResponds(c))

LiveNext ==
  \/ \E ok \in BOOLEAN : ConnectReturns(ok)
  \/ \E c \in ChatIds, message \in UserTexts : handleNewChat(c, message)
  \/ \E c \in ChatIds : ListingResponds(c)
  \/ \E c \in ChatIds : ModelResponds(c)
  \/ \E c \in ChatIds : ToolResponds(c)
  \/ \E c \in ChatIds : \E i \in DOMAIN chats[c].attrs, ok \in BOOLEAN : FilterSettles(c, i, ok)

SpecLive == Init /\ [][LiveNext]_vars /\ Fairness

\* ------------------------------------------------------------------------
\* Specification of the host with two POST /chat requests in flight: the one
\* ChatHandler runs two handleNewChat calls whose awaits interleave.
\* ------------------------------------------------------------------------

\* The texts of the two request bodies.
ConcurrentTexts == {"hi", "hello"}

\* The model responses with tool calls followed here.
ConcurrentToolCalls == {<<CalcAdd>>, <<NoSeparator, CalcAdd>>}

\* initializeClients has run to its end and every connect succeeded.
ConcurrentInit ==
  /\ clients = ClientSet(ClientSet(<< >>, ServerConfig[1].name, 1),
                         ServerConfig[3].name, 3)
  /\ connIdx = Len(ServerConfig) + 1
  /\ connLog = [d \in 1..Len(ServerConfig) |->
                  IF ServerConfig[d].url THEN "connected" ELSE "none"]
  /\ tool_approvals = StoredApprovals
  /\ chats = [c \in ChatIds |-> IdleChat]
  /\ calls = << >>
  /\ allowed = ChatIds
  /\ SanIdle
  /\ RedIdle
  /\ OpsIdle

ConcurrentNext ==
  \/ \E c \in ChatIds, message \in ConcurrentTexts : handleNewChat(c, message)
  \/ \E c \in ChatIds : ListToolsReturns(c, TRUE)
  \/ \E c \in ChatIds : ModelAnswers(c, "answer")
  \/ \E c \in ChatIds, toolCalls \in ConcurrentToolCalls : ModelRequestsTools(c, toolCalls)
  \/ \E c \in ChatIds : ModelFails(c)
  \/ \E c \in ChatIds, content \in ToolResults : ToolReturns(c, content)
  \/ \E c \in ChatIds : ToolFails(c)
  \/ \E c \in ChatIds : \E i \in DOMAIN chats[c].attrs : FilterSettles(c, i, TRUE)

SpecConcurrent == ConcurrentInit /\ [][ConcurrentNext]_vars

\* ------------------------------------------------------------------------
\* Specification of the host with disconnectAll: the session registry may be
\* cleared at any moment.
\* ------------------------------------------------------------------------

\* Variant of DisconnectAll: the entry inserted first is left in the registry.
DisconnectAll_KeepsFirst ==
  /\ shutdowns' = (shutdowns + 1) % 2
  /\ clients' = IF clients = << >> THEN << >> ELSE <<Head(clients)>>
  /\ chats' = [c \in ChatIds |->
                 IF chats[c].pc = "listing" THEN [chats[c] EXCEPT !.listPos = 0]
                 ELSE chats[c]]
  /\ UNCHANGED <<connIdx, tool_approvals, calls, allowed, connLog>>
  /\ UNCHANGED <<sanVars, redVars, approvalOps>>

\* MCPClientManager.disconnectAll: this.clients.clear(). A getAllTools whose
\* for-of loop is iterating the Map goes on, after the listTools() it awaits,
\* with the entries inserted after the clear().
DisconnectAll ==
  /\ shutdowns' = (shutdowns + 1) % 2
  /\ clients' = << >>
  /\ chats' = [c \in ChatIds |->
                 IF chats[c].pc = "listing" THEN [chats[c] EXCEPT !.listPos = 0]
                 ELSE chats[c]]
  /\ UNCHANGED <<connIdx, tool_approvals, calls, allowed, connLog>>
  /\ UNCHANGED <<sanVars, redVars, approvalOps>>

ShutdownNext ==
  \/ DisconnectAll
  \/ \E ok \in BOOLEAN : ConnectReturns(ok)
  \/ \E c \in ChatIds, message \in UserTexts : handleNewChat(c, message)
  \/ \E c \in ChatIds, ok \in BOOLEAN : ListToolsReturns(c, ok)
  \/ \E c \in ChatIds : ModelAnswers(c, "answer")
  \/ \E c \in ChatIds, toolCalls \in RoutineToolCalls : ModelRequestsTools(c, toolCalls)
  \/ \E c \in ChatIds : ModelFails(c)
  \/ \E c \in ChatIds, content \in ToolResults : ToolReturns(c, content)
  \/ \E c \in ChatIds : ToolFails(c)
  \/ \E c \in ChatIds : \E i \in DOMAIN chats[c].attrs, ok \in BOOLEAN : FilterSettles(c, i, ok)

SpecShutdown == Init /\ [][ShutdownNext]_vars

\* ------------------------------------------------------------------------
\* Specification of the approval store alone: POST and DELETE
\* /api/tool-approvals on a database that starts without rows.
\* ------------------------------------------------------------------------

\* The (serverName, toolName) pairs the requests name.
ApprovalKeys ==
  { [serverName |-> <<"calc">>, toolName |-> <<"add">>],
    [serverName |-> <<"calc">>, toolName |-> <<"eu">>],
    [serverName |-> <<"calc", "eu">>, toolName |-> <<"search">>] }

\* Variant of setToolApproval: a plain INSERT, on a table without the UNIQUE
\* constraint.
setToolApproval_PlainInsert(serverName, toolName, requiresApproval) ==
  /\ Len(approvalOps) < MaxOps
  /\ tool_approvals' = tool_approvals \cup
        {[serverName |-> serverName, toolName |-> toolName,
          requiresApproval |-> SqlBoolean(requiresApproval)]}
  /\ approvalOps' = Append(approvalOps,
        [op |-> "set", serverName |-> serverName, toolName |-> toolName,
         requiresApproval |-> requiresApproval])
  /\ UNCHANGED <<clients, connIdx, chats, calls, allowed, connLog>>
  /\ UNCHANGED <<sanVars, redVars, shutdowns>>

\* DatabaseService.setToolApproval: INSERT ... ON CONFLICT(serverName,
\* toolName) DO UPDATE SET requiresApproval = excluded.requiresApproval.
setToolApproval(serverName, toolName, requiresApproval) ==
  /\ Len(approvalOps) < MaxOps
  /\ tool_approvals' =
        IF getToolApproval(tool_approvals, serverName, toolName) = {}
        THEN tool_approvals \cup
               {[serverName |-> serverName, toolName |-> toolName,
                 requiresApproval |-> SqlBoolean(requiresApproval)]}
        ELSE {IF row \in getToolApproval(tool_approvals, serverName, toolName)
              THEN [row EXCEPT !.requiresApproval = SqlBoolean(requiresApproval)]
              ELSE row : row \in tool_approvals}
  /\ approvalOps' = Append(approvalOps,
        [op |-> "set", serverName |-> serverName, toolName |-> toolName,
         requiresApproval |-> requiresApproval])
  /\ UNCHANGED <<clients, connIdx, chats, calls, allowed, connLog>>
  /\ UNCHANGED <<sanVars, redVars, shutdowns>>

\* DatabaseService.deleteToolApproval: DELETE ... WHERE serverName = ? AND
\* toolName = ?.
deleteToolApproval(serverName, toolName) ==
  /\ Len(approvalOps) < MaxOps
  /\ tool_approvals' =
        tool_approvals \ getToolApproval(tool_approvals, serverName, toolName)
  /\ approvalOps' = Append(approvalOps,
        [op |-> "delete", serverName |-> serverName, toolName |-> toolName,
         requiresApproval |-> FALSE])
  /\ UNCHANGED <<clients, connIdx, chats, calls, allowed, connLog>>
  /\ UNCHANGED <<sanVars, redVars, shutdowns>>

ApprovalsInit ==
  /\ clients = << >>
  /\ connIdx = NextWithUrl(1)
  /\ connLog = [d \in 1..Len(ServerConfig) |-> "none"]
  /\ tool_approvals = {}
  /\ chats = [c \in ChatIds |-> IdleChat]
  /\ calls = << >>
  /\ allowed = {}
  /\ SanIdle
  /\ RedIdle
  /\ OpsIdle

ApprovalsNext ==
  \/ \E key \in ApprovalKeys, requiresApproval \in BOOLEAN :
        setToolApproval(key.serverName, key.toolName, requiresApproval)
  \/ \E key \in ApprovalKeys : deleteToolApproval(key.serverName, key.toolName)

SpecApprovals == ApprovalsInit /\ [][ApprovalsNext]_vars

\* ------------------------------------------------------------------------
\* Specification of the result reduction alone: the tool message that
\* processToolCalls pushes for every shape of result, in the two versions of
\* processToolCalls the source tree holds.
\* ------------------------------------------------------------------------

\* processToolCalls of unnamed/part_000:
\* messages.push({role: "tool", content: this.extractToolContent(toolResult)})
PushExtracted ==
  /\ redPc = "returned"
  /\ toolMessage' = extractToolContent(toolResult)
  /\ redPc' = "extracted"
  /\ UNCHANGED toolResult
  /\ UNCHANGED hostVars
  /\ UNCHANGED <<sanVars, opsVars>>

\* processToolCalls of src/chat-handler.ts:
\* messages.push({role: "tool", content: JSON.stringify(toolResult)})
PushStringified ==
  /\ redPc = "returned"
  /\ toolMessage' = JSONStringify(toolResult)
  /\ redPc' = "stringified"
  /\ UNCHANGED toolResult
  /\ UNCHANGED hostVars
  /\ UNCHANGED <<sanVars, opsVars>>

ReductionInit ==
  /\ HostInit
  /\ allowed = {}
  /\ SanIdle
  /\ toolResult \in ReductionResults
  /\ toolMessage = ""
  /\ redPc = "returned"
  /\ OpsIdle

ReductionNext == PushExtracted \/ PushStringified

SpecReduction == ReductionInit /\ [][ReductionNext]_vars

\* ------------------------------------------------------------------------
\* Specification of the sanitizer alone: filterToolArguments applied to every
\* flat object over ArgKeys and every required list, then to its own output.
\* ------------------------------------------------------------------------

SanitizeOnce ==
  /\ sanPc = 0
  /\ sanOnce' = filterToolArguments(sanArgs, sanRequired)
  /\ sanPc' = 1
  /\ UNCHANGED <<sanArgs, sanRequired, sanTwice>>
  /\ UNCHANGED hostVars
  /\ UNCHANGED <<redVars, opsVars>>

SanitizeAgain ==
  /\ sanPc = 1
  /\ sanTwice' = filterToolArguments(sanOnce, sanRequired)
  /\ sanPc' = 2
  /\ UNCHANGED <<sanArgs, sanRequired, sanOnce>>
  /\ UNCHANGED hostVars
  /\ UNCHANGED <<redVars, opsVars>>

SanitizerInit ==
  /\ HostInit
  /\ allowed = {}
  /\ sanArgs \in ObjectsOver(ArgKeys)
  /\ sanRequired \in SUBSET ArgKeys
  /\ sanOnce = EmptyObject
  /\ sanTwice = EmptyObject
  /\ sanPc = 0
  /\ RedIdle
  /\ OpsIdle

SanitizerNext == SanitizeOnce \/ SanitizeAgain

SpecSanitizer == SanitizerInit /\ [][SanitizerNext]_vars

\* ------------------------------------------------------------------------
\* Properties
\* ------------------------------------------------------------------------

\* C8: the sanitizer's output contains exactly the input keys except those
\* whose value is null, undefined or the empty string and that are not in the
\* required set, and every kept key keeps its input value.
C8_SanitizerOutput ==
  sanPc >= 1 =>
    /\ DOMAIN sanOnce =
         {k \in DOMAIN sanArgs :
            ~(sanArgs[k] \in {"null", "undefined", "''"} /\ k \notin sanRequired)}
    /\ \A k \in DOMAIN sanOnce : sanOnce[k] = sanArgs[k]

\* C8 witness: a sanitized mapping in which an optional empty string was
\* removed, a required null was kept and a falsy non-empty value was kept.
C8_Witness ==
  /\ sanPc >= 1
  /\ sanRequired = {"b"}
  /\ sanArgs = [k \in {"a", "b", "q"} |->
                  IF k = "a" THEN "0" ELSE IF k = "b" THEN "null" ELSE "''"]
  /\ sanOnce = [k \in {"a", "b"} |-> IF k = "a" THEN "0" ELSE "null"]

\* C9: sanitizing the sanitized output again with the same required set
\* yields the same mapping as sanitizing once.
C9_SanitizerIdempotent ==
  sanPc = 2 => sanTwice = sanOnce

\* C9 witness: a second application on an output from which the first
\* application removed two keys.
C9_Witness ==
  /\ sanPc = 2
  /\ Cardinality(DOMAIN sanArgs) = 3
  /\ Cardinality(DOMAIN sanOnce) = 1
  /\ sanTwice = sanOnce

\* ------------------------------------------------------------------------
\* Notions used by the properties of the conversation loop
\* ------------------------------------------------------------------------

\* The indexes in the history of the remote calls sent for request i of round
\* r of chat c.
CallsFor(c, r, i) ==
  {k \in DOMAIN calls : calls[k].chat = c /\ calls[k].round = r /\ calls[k].index = i}

\* A qualified name without '.' separator, or with an empty server or tool
\* segment.
Malformed(name) == Len(name) < 2 \/ name[1] = "" \/ name[2] = ""

\* Chat c has left its latest tool-call round through the end of the request
\* list (the round was not aborted).
RoundCompleted(c) ==
  /\ chats[c].round > 0
  /\ chats[c].idx = Len(chats[c].attrs) + 1

\* C1 as stated: a request to a server that is not in the registry is
\* skipped and startConversation does not fail because of it.
C1_UnknownServerSkipped ==
  \A c \in ChatIds :
     ~(chats[c].pc = "failed" /\ chats[c].error = "No client found for server")

\* C1 as amended: a well-formed request whose server is not in the registry
\* is never invoked remotely and produces no tool-role message, but it is not
\* skipped: it aborts the conversation. When callTool has thrown for request
\* errorAt, no request at or after it was dispatched, no message of the round
\* was added after the assistant message, the model was not invoked again and
\* there is no answer; and a round is only ever completed with every
\* well-formed request of it invoked remotely.
C1_UnknownServerAborts ==
  \A c \in ChatIds :
     LET ch == chats[c] IN
     /\ \A k \in DOMAIN calls : calls[k].session \in Sessions
     /\ ch.pc = "awaitTool" =>
          \E k \in CallsFor(c, ch.round, ch.idx) : calls[k].outcome = "pending"
     /\ (ch.pc = "failed" /\ ch.error = "No client found for server") =>
          /\ ch.errorAt \in 1..Len(ch.attrs)
          /\ ~Malformed(ch.attrs[ch.errorAt].name)
          /\ \A i \in ch.errorAt..Len(ch.attrs) : CallsFor(c, ch.round, i) = {}
          /\ ch.messages[Len(ch.messages)].role = "assistant"
          /\ ch.modelCalls = ch.round
          /\ ch.answer = ""
     /\ RoundCompleted(c) =>
          \A i \in 1..Len(ch.attrs) :
             ~Malformed(ch.attrs[i].name) =>
                \E k \in CallsFor(c, ch.round, i) : calls[k].outcome = "returned"

\* C1 witness: the first of two well-formed requests went to a server without
\* session, and the conversation has failed.
C1_Witness ==
  /\ chats[1].pc = "failed"
  /\ chats[1].error = "No client found for server"
  /\ chats[1].errorAt = 1
  /\ Len(chats[1].attrs) = 2
  /\ ~Malformed(chats[1].attrs[2].name)

\* C2 as stated: the arguments value handed to callTool is the completed
\* output of the sanitizer for the request's raw arguments, and the server
\* receives that filtered mapping.
C2_SanitizedBeforeDispatch ==
  \A k \in DOMAIN calls :
     /\ calls[k].args.kind = "Object"
     /\ calls[k].arguments =
          filterToolArguments(calls[k].request.arguments,
                              RequiredOfTool(calls[k].session, calls[k].toolName))

\* C3 as stated: no tool whose approval record has requiresApproval = true is
\* invoked by the loop (the loop has no way to receive a confirmation, so it
\* would have to suspend instead).
C3_ApprovalBeforeInvoke ==
  \A k \in DOMAIN calls : ~calls[k].requiresApproval

C5_MalformedRequestIsolated ==
  \A c \in ChatIds :
     LET ch == chats[c]
         wellFormed == {i \in 1..Len(ch.attrs) : ~Malformed(ch.attrs[i].name)}
     IN
     /\ \A k \in DOMAIN calls : ~Malformed(calls[k].request.name)
     /\ (ch.pc = "failed" /\ ch.errorAt > 0) => ch.errorAt \in wellFormed
     /\ ch.pc = "awaitTool" => ch.idx \in wellFormed
     /\ RoundCompleted(c) =>
          /\ Len(ch.newMessages) = Cardinality(wellFormed)
          /\ \A i \in wellFormed :
                \E k \in CallsFor(c, ch.round, i) : calls[k].outcome = "returned"
          /\ \A i \in 1..Len(ch.attrs) \ wellFormed : CallsFor(c, ch.round, i) = {}
          /\ ch.modelCalls = ch.round + 1
          /\ ch.pc \in {"awaitModel", "done", "failed"}
          /\ ch.pc = "failed" => ch.error = "chat failed"

\* C5 witness: a round made of a request without separator followed by a
\* well-formed one was completed and the model was invoked again.
C5_Witness ==
  /\ RoundCompleted(1)
  /\ chats[1].pc = "awaitModel"
  /\ Len(chats[1].attrs) = 2
  /\ Malformed(chats[1].attrs[1].name)
  /\ ~Malformed(chats[1].attrs[2].name)
  /\ Len(chats[1].newMessages) = 1

\* C6: getAllTools does not fail and returns exactly the tools of the servers
\* whose listTools() succeeded, each tagged with the name its server is
\* registered under, and nothing from a server whose listTools() failed. The
\* servers queried are the entries of the registry, in order.
C6_ListingIsolatesFailures ==
  \A c \in ChatIds :
     LET ch == chats[c]
         okEntries == {i \in 1..Len(ch.listLog) : ch.listLog[i].ok}
         listed(i) == {<<ch.listLog[i].name, RemoteTools(ch.listLog[i].session)[t].name>> :
                          t \in 1..Len(RemoteTools(ch.listLog[i].session))}
     IN
     /\ {<<ch.allTools[t].serverName, ch.allTools[t].name>> : t \in 1..Len(ch.allTools)}
          = UNION {listed(i) : i \in okEntries}
     /\ Len(ch.allTools) = Cardinality(UNION {listed(i) : i \in okEntries})
     /\ \A i \in 1..Len(ch.listLog) :
          /\ i <= Len(clients)
          /\ clients[i].name = ch.listLog[i].name
          /\ clients[i].session = ch.listLog[i].session
     /\ ch.pc = "listing" => Len(ch.listLog) < Len(clients)
     /\ ch.pc = "failed" =>
          ch.error \in {"Message is required", "chat failed", "callTool failed",
                        "No client found for server"}

\* C6 witness: of two registered servers the first one's query failed and the
\* second one's succeeded, and the listing returned the second one's tool.
C6_Witness ==
  /\ chats[1].pc = "awaitModel"
  /\ Len(chats[1].listLog) = 2
  /\ ~chats[1].listLog[1].ok
  /\ chats[1].listLog[2].ok
  /\ Len(chats[1].allTools) = 1
  /\ chats[1].allTools[1].serverName = <<"calc", "eu">>

\* C7: when initializeClients has completed, the registry holds a session
\* under serverName for exactly the descriptors that have a url and whose
\* connection attempt succeeded, namely the session connected for that
\* descriptor; every descriptor with a url was attempted, whatever happened
\* to the ones before it, and none without url was.
C7_ConnectIsolatesFailures ==
  /\ \A i \in 1..Len(clients) :
        /\ clients[i].session \in Sessions
        /\ connLog[clients[i].session] = "connected"
        /\ ServerConfig[clients[i].session].name = clients[i].name
        /\ ServerConfig[clients[i].session].url
  /\ \A d \in 1..Len(ServerConfig) :
        connLog[d] = "connected" => ClientGet(clients, ServerConfig[d].name) = d
  /\ \A d \in 1..Len(ServerConfig) :
        ~ServerConfig[d].url => connLog[d] = "none"
  /\ connIdx > Len(ServerConfig) =>
        \A d \in 1..Len(ServerConfig) :
           ServerConfig[d].url => connLog[d] \in {"connected", "failed"}

\* C7 witness: initializeClients has completed, the first attempt failed and
\* the attempt after it succeeded and is registered.
C7_Witness ==
  /\ connIdx > Len(ServerConfig)
  /\ connLog[1] = "failed"
  /\ connLog[3] = "connected"
  /\ RegistryNames(clients) = {<<"calc", "eu">>}

\* C10 as stated: when two connected servers expose a tool with the same
\* name, a request carrying the qualified name of one of them is invoked on
\* that server's session with that tool name.
C10_RoutesToNamedServer ==
  [][\A i, j \in 1..Len(clients) :
       \A ti \in 1..Len(RemoteTools(clients[i].session)) :
          LET tool == RemoteTools(clients[i].session)[ti].name
              sent == calls'[Len(calls')]
          IN (/\ i # j
              /\ \E tj \in 1..Len(RemoteTools(clients[j].session)) :
                    RemoteTools(clients[j].session)[tj].name = tool
              /\ Len(calls') = Len(calls) + 1
              /\ sent.request.name = QualifiedName(clients[i].name, tool))
             => (sent.session = clients[i].session /\ sent.toolName = tool)]_vars

\* C11 as stated: in the tool list a chat presents to the model, two listed
\* tools that differ in their (serverName, toolName) pair have different
\* qualified names.
C11_QualifiedNamesDistinct ==
  \A c \in ChatIds :
     \A i, j \in 1..Len(chats[c].tools) :
        (<<chats[c].allTools[i].serverName, chats[c].allTools[i].name>> #
         <<chats[c].allTools[j].serverName, chats[c].allTools[j].name>>)
        => chats[c].tools[i] # chats[c].tools[j]

\* C12 as stated: every remote call was dispatched to the server named by the
\* text before the first '.' of the request's qualified name, with all the
\* text after that '.' as its tool name.
C12_SplitOnFirstSeparator ==
  \A k \in DOMAIN calls :
     /\ ServerConfig[calls[k].session].name = <<Head(calls[k].request.name)>>
     /\ calls[k].toolName = Tail(calls[k].request.name)

\* C13: a request whose message is empty fails with "Message is required"
\* and, at every later point, the model was not invoked for it, no tool
\* server was queried for it, no tool was invoked for it and its conversation
\* was never created.
C13_EmptyMessageRejectedFirst ==
  \A c \in ChatIds :
     (chats[c].pc # "idle" /\ chats[c].userText = "") =>
        /\ chats[c].pc = "failed"
        /\ chats[c].error = "Message is required"
        /\ chats[c].modelCalls = 0
        /\ chats[c].listLog = << >>
        /\ chats[c].messages = << >>
        /\ \A k \in DOMAIN calls : calls[k].chat # c

\* C13 witness: an empty message was rejected while two sessions were
\* registered, so there were tool servers to query.
C13_Witness ==
  /\ chats[1].pc = "failed"
  /\ chats[1].userText = ""
  /\ chats[1].error = "Message is required"
  /\ Len(clients) = 2

\* The number of assistant messages in the conversation of chat c: one per
\* model response that carried tool calls.
AssistantMessages(c) ==
  Cardinality({i \in DOMAIN chats[c].messages : chats[c].messages[i].role = "assistant"})

C15_DirectAnswer ==
  \A c \in ChatIds :
     (chats[c].pc = "done" /\ chats[c].round = 0) =>
        /\ chats[c].answer = chats[c].response
        /\ chats[c].modelCalls = 1
        /\ \A k \in DOMAIN calls : calls[k].chat # c
        /\ chats[c].newMessages = << >>
        /\ chats[c].messages =
             << SystemMessage,
                [role |-> "user", content |-> chats[c].userText, tool_calls |-> << >>] >>

\* C15 witness: with tools of two servers on offer, the first response had
\* no tool calls and its content was returned.
C15_Witness ==
  /\ chats[1].pc = "done"
  /\ chats[1].round = 0
  /\ chats[1].hasTools
  /\ Len(chats[1].listLog) = 2
  /\ chats[1].response = "answer"
  /\ chats[1].answer = "answer"

\* C16: once a chat has built its chat request, the request carries a tool
\* list exactly when getAllTools listed at least one tool; the list has one
\* entry per listed tool, in the listing's order, named serverName "."
\* toolName; and when nothing was listed the request has no tool list.
C16_ToolListAttachedIffTools ==
  \A c \in ChatIds :
     chats[c].modelCalls > 0 =>
        /\ chats[c].hasTools <=> Len(chats[c].allTools) > 0
        /\ Len(chats[c].tools) = Len(chats[c].allTools)
        /\ \A i \in 1..Len(chats[c].allTools) :
              chats[c].tools[i] =
                 chats[c].allTools[i].serverName \o chats[c].allTools[i].name
        /\ ~chats[c].hasTools => chats[c].tools = << >>

\* C16 witness: a chat request that carries the four tools of two servers.
C16_Witness ==
  /\ chats[1].pc = "awaitModel"
  /\ chats[1].hasTools
  /\ Len(chats[1].tools) = 4
  /\ chats[1].tools[1] = <<"calc", "add">>

\* C17 as stated: the content of a pushed tool message is the text of the
\* first part when the result is a non-empty list whose first part has type
\* "text", the serialization of that part's json when its type is "json",
\* and the serialization of the whole result in every other case.
C17_ToolMessageIsReduction ==
  redPc \in {"extracted", "stringified"} =>
     toolMessage =
        IF IsArray(toolResult) /\ toolResult # << >> /\ Head(toolResult).type = "text"
        THEN Head(toolResult).text
        ELSE IF IsArray(toolResult) /\ toolResult # << >> /\ Head(toolResult).type = "json"
        THEN Head(toolResult).json
        ELSE JSONStringify(toolResult)

\* C18: every disconnectAll leaves the session registry empty, and on an
\* empty registry it changes nothing; while the registry is empty, a chat
\* that starts lists no tool and queries no server, and a chat that reaches a
\* well-formed request sends no remote call and fails with "No client found
\* for server".
C18_DisconnectAllReleasesAll ==
  [][/\ shutdowns' # shutdowns =>
          /\ clients' = << >>
          /\ clients = << >> => hostVars' = hostVars
     /\ \A c \in ChatIds :
          (clients = << >> /\ chats[c].pc = "idle" /\ chats'[c].pc \notin {"idle", "failed"}) =>
             /\ chats'[c].pc = "awaitModel"
             /\ chats'[c].allTools = << >>
             /\ chats'[c].listLog = << >>
             /\ ~chats'[c].hasTools
     /\ \A c \in ChatIds :
          (/\ clients = << >>
           /\ chats'[c].idx # chats[c].idx \/ chats'[c].round # chats[c].round
           /\ chats'[c].idx <= Len(chats'[c].attrs)) =>
             /\ chats'[c].pc = "failed"
             /\ chats'[c].error = "No client found for server"
             /\ Len(calls') = Len(calls)]_vars

\* C18 witness: both sessions had been registered, disconnectAll was called
\* an even number of times, the registry is empty, and a conversation that
\* had listed tools failed on its request with the unknown-server error.
C18_Witness ==
  /\ connLog[1] = "connected"
  /\ connLog[3] = "connected"
  /\ shutdowns = 0
  /\ clients = << >>
  /\ chats[1].hasTools
  /\ chats[1].pc = "failed"
  /\ chats[1].error = "No client found for server"

\* The indexes of the operations on the pair (serverName, toolName) in the
\* history of the approval store.
OpsOn(serverName, toolName) ==
  {i \in DOMAIN approvalOps :
     approvalOps[i].serverName = serverName /\ approvalOps[i].toolName = toolName}

\* C19: after any sequence of set and delete operations the store holds at
\* most one row per (serverName, toolName), and the requires-approval lookup
\* of a pair is the value of the latest operation on that pair when that
\* operation is a set, and false when it is a delete or when there is no
\* operation on the pair; so the answer for a pair depends on the operations
\* on that pair only.
C19_ApprovalStoreLastWriteWins ==
  \A key \in ApprovalKeys :
     LET ops == OpsOn(key.serverName, key.toolName)
         rows == getToolApproval(tool_approvals, key.serverName, key.toolName)
         lookup == toolRequiresApproval(tool_approvals, key.serverName, key.toolName)
     IN /\ Cardinality(rows) <= 1
        /\ IF ops = {} THEN rows = {} /\ lookup = FALSE
           ELSE LET last == approvalOps[CHOOSE i \in ops : \A j \in ops : j <= i]
                IN IF last.op = "set"
                   THEN Cardinality(rows) = 1 /\ lookup = last.requiresApproval
                   ELSE rows = {} /\ lookup = FALSE

\* C19 witness: a pair was set to true and then to false, another pair was
\* set to true in between, and the lookups answer false and true.
C19_Witness ==
  /\ Len(approvalOps) = 3
  /\ approvalOps[1].op = "set" /\ approvalOps[1].requiresApproval
  /\ approvalOps[1].toolName = <<"add">>
  /\ approvalOps[2].op = "set" /\ approvalOps[2].requiresApproval
  /\ approvalOps[2].toolName = <<"search">>
  /\ approvalOps[3].op = "set" /\ ~approvalOps[3].requiresApproval
  /\ approvalOps[3].toolName = <<"add">>
  /\ ~toolRequiresApproval(tool_approvals, <<"calc">>, <<"add">>)
  /\ toolRequiresApproval(tool_approvals, <<"calc", "eu">>, <<"search">>)
  /\ Cardinality(tool_approvals) = 2

\* The number of remote calls of round r of chat c that have returned.
InvokedIn(c, r) ==
  Cardinality({k \in DOMAIN calls :
                 calls[k].chat = c /\ calls[k].round = r /\ calls[k].outcome = "returned"})

\* The index in the conversation of chat c of the assistant message of round
\* r, and the number of tool messages that follow it up to the assistant
\* message of the next round or the end.
AssistantPos(c, r) ==
  LET msgs == chats[c].messages
  IN CHOOSE i \in DOMAIN msgs :
       /\ msgs[i].role = "assistant"
       /\ Cardinality({j \in 1..i : msgs[j].role = "assistant"}) = r

ToolRun(c, r) ==
  LET msgs == chats[c].messages
      after == {j \in DOMAIN msgs : j > AssistantPos(c, r) /\ msgs[j].role # "tool"}
      stop == IF after = {} THEN Len(msgs) + 1
              ELSE CHOOSE j \in after : \A k \in after : j <= k
  IN stop - AssistantPos(c, r) - 1

\* The part of the shape that does not depend on the tool messages: once the
\* conversation exists it starts with the system message and the one user
\* message, every later message is an assistant message carrying requests or
\* a tool message, and there is one assistant message per round begun.
ConversationFrame(c) ==
  LET msgs == chats[c].messages IN
  msgs # << >> =>
     /\ Len(msgs) >= 2
     /\ msgs[1] = SystemMessage
     /\ msgs[2] = [role |-> "user", content |-> chats[c].userText, tool_calls |-> << >>]
     /\ \A i \in 3..Len(msgs) :
           \/ msgs[i].role = "assistant" /\ msgs[i].tool_calls # << >>
           \/ msgs[i].role = "tool"
     /\ Len(msgs) >= 3 => msgs[3].role = "assistant"
     /\ AssistantMessages(c) = chats[c].round

\* C20 as stated: at every point the conversation has the frame above and
\* the assistant message of every round is followed by one tool message per
\* request of that round that was invoked.
C20_ShapeAtEveryPoint ==
  \A c \in ChatIds :
     /\ ConversationFrame(c)
     /\ \A r \in 1..chats[c].round : ToolRun(c, r) = InvokedIn(c, r)

\* C20 as amended: the conversation only grows by appending; it has the
\* frame above at every point; the assistant message of a round that ran to
\* the end of its request list is followed by one tool message per request of
\* the round that was invoked; and while a round is running, or when it was
\* aborted, none of its tool messages is in the conversation.
C20_ShapeAtRoundEnd ==
  /\ [](\A c \in ChatIds :
          /\ ConversationFrame(c)
          /\ \A r \in 1..chats[c].round :
                ToolRun(c, r) = IF r < chats[c].round \/ RoundCompleted(c)
                                THEN InvokedIn(c, r) ELSE 0)
  /\ [][\A c \in ChatIds :
          /\ Len(chats[c].messages) <= Len(chats'[c].messages)
          /\ SubSeq(chats'[c].messages, 1, Len(chats[c].messages)) = chats[c].messages]_vars

\* C20 witness: a round with a skipped and an invoked request has ended, and
\* the conversation is system, user, assistant, tool.
C20_Witness ==
  /\ chats[1].round = 1
  /\ RoundCompleted(1)
  /\ Len(chats[1].attrs) = 2
  /\ IsInvalidToolCall(chats[1].attrs[1])
  /\ InvokedIn(1, 1) = 1
  /\ Len(chats[1].messages) = 4
  /\ chats[1].messages[3].role = "assistant"
  /\ chats[1].messages[4].role = "tool"

RECURSIVE ReturnedContents(_, _, _)
\* The reduced results of the remote calls of round r of chat c that have
\* returned, from index k of the history on, in the order they were sent.
ReturnedContents(c, r, k) ==
  IF k > Len(calls) THEN << >>
  ELSE IF calls[k].chat = c /\ calls[k].round = r /\ calls[k].outcome = "returned"
  THEN <<extractToolContent(calls[k].content)>> \o ReturnedContents(c, r, k + 1)
  ELSE ReturnedContents(c, r, k + 1)

\* C21: within a round the remote calls of a conversation are sent one at a
\* time in request order: a call is sent only when every earlier call of the
\* conversation has completed, and calls of one round are sent by increasing
\* request index; the tool messages collected in the round are the reduced
\* results of the returned calls in that order; and the model is invoked
\* again only when no call of the conversation is pending.
C21_SequentialInOrderDispatch ==
  /\ [](\A c \in ChatIds :
          /\ \A k, l \in DOMAIN calls :
                (k < l /\ calls[k].chat = c /\ calls[l].chat = c) =>
                   /\ calls[k].outcome # "pending"
                   /\ calls[k].round <= calls[l].round
                   /\ calls[k].round = calls[l].round => calls[k].index < calls[l].index
          /\ (chats[c].round > 0 /\ chats[c].pc \in {"awaitTool", "awaitModel", "done"}) =>
                LET tools == [i \in 1..Len(chats[c].newMessages) |->
                                chats[c].newMessages[i].content]
                IN tools = ReturnedContents(c, chats[c].round, 1)
          /\ chats[c].pc \in {"awaitModel", "done"} =>
                \A k \in DOMAIN calls : calls[k].chat = c => calls[k].outcome # "pending")
  /\ [][\A c \in ChatIds :
          chats'[c].modelCalls # chats[c].modelCalls =>
             \A k \in DOMAIN calls' : calls'[k].chat = c => calls'[k].outcome # "pending"]_vars

\* C21 witness: a round of two requests had both invoked in order with
\* different results, the two tool messages are in the conversation in that
\* order, and the model was invoked again.
C21_Witness ==
  /\ chats[1].pc = "awaitModel"
  /\ chats[1].round = 1
  /\ Len(calls) = 2
  /\ calls[1].index = 1 /\ calls[2].index = 2
  /\ calls[1].outcome = "returned" /\ calls[2].outcome = "returned"
  /\ calls[1].content # calls[2].content
  /\ Len(chats[1].messages) = 5
  /\ chats[1].messages[4].content = extractToolContent(calls[1].content)
  /\ chats[1].messages[5].content = extractToolContent(calls[2].content)
  /\ chats[1].modelCalls = 2

\* The contents of the tool messages that follow the assistant message of
\* round r in the conversation of chat c.
ToolContents(c, r) ==
  [i \in 1..ToolRun(c, r) |-> chats[c].messages[AssistantPos(c, r) + i].content]

\* C22: with two chat requests in flight, every conversation holds only
\* messages of its own request: its own user text, for the round it is in
\* the assistant message carrying the requests the model emitted for it, and
\* as tool messages, in the conversation and in the list being collected,
\* the reduced results of its own remote calls and nothing else.
C22_ConversationsIsolated ==
  \A c \in ChatIds :
     /\ ConversationFrame(c)
     /\ chats[c].round > 0 =>
          /\ chats[c].messages[AssistantPos(c, chats[c].round)].tool_calls =
                [i \in 1..Len(chats[c].attrs) |->
                   [name |-> chats[c].attrs[i].name,
                    arguments |-> chats[c].attrs[i].arguments]]
          /\ [i \in 1..Len(chats[c].newMessages) |-> chats[c].newMessages[i].content]
                = ReturnedContents(c, chats[c].round, 1)
     /\ \A r \in 1..chats[c].round :
          ToolContents(c, r) =
             IF r < chats[c].round \/ RoundCompleted(c)
             THEN ReturnedContents(c, r, 1) ELSE << >>

\* C22 witness: two conversations with different user texts and different
\* requests had one remote call each, the second request's call sent first,
\* with different results, and each has returned with its own four messages.
C22_Witness ==
  /\ chats[1].pc = "done" /\ chats[2].pc = "done"
  /\ chats[1].userText # chats[2].userText
  /\ Len(calls) = 2
  /\ calls[1].chat = 2 /\ calls[2].chat = 1
  /\ calls[1].content # calls[2].content
  /\ Len(chats[1].messages) = 4 /\ Len(chats[2].messages) = 4
  /\ chats[1].messages[4].content = extractToolContent(calls[2].content)
  /\ chats[2].messages[4].content = extractToolContent(calls[1].content)
  /\ chats[1].messages[3].tool_calls # chats[2].messages[3].tool_calls

\* C23: when disconnectAll has run after a conversation listed its tools,
\* no remote call is sent through a session that is not in the registry at
\* that moment: a step that sends a call uses the session registered under
\* the parsed server name; a conversation that reaches a well-formed request
\* addressed to a server it had listed and that is no longer registered sends
\* nothing and fails with "No client found for server"; and a failed
\* conversation stays failed and has no answer.
C23_NoCallThroughReleasedSession ==
  [][\A c \in ChatIds :
       /\ (Len(calls') > Len(calls) /\ calls'[Len(calls')].chat = c) =>
             \E i \in 1..Len(clients) :
                /\ clients[i].session = calls'[Len(calls')].session
                /\ clients[i].name = chats'[c].attrs[chats'[c].idx].serverName
       /\ (/\ chats'[c].idx # chats[c].idx \/ chats'[c].round # chats[c].round
           /\ chats'[c].idx <= Len(chats'[c].attrs)
           /\ \E l \in 1..Len(chats[c].listLog) :
                 chats[c].listLog[l].name = chats'[c].attrs[chats'[c].idx].serverName
           /\ chats'[c].attrs[chats'[c].idx].serverName \notin RegistryNames(clients)) =>
             /\ chats'[c].pc = "failed"
             /\ chats'[c].error = "No client found for server"
             /\ Len(calls') = Len(calls)
       /\ chats[c].pc = "failed" =>
             chats'[c].pc = "failed" /\ chats'[c].answer = ""]_vars

\* C23 witness: a conversation listed the tools of server calc, its first
\* invocation on calc was pending when disconnectAll ran and returned after
\* it, and its second request to calc failed as unknown server.
C23_Witness ==
  /\ shutdowns = 1
  /\ clients = << >>
  /\ chats[1].hasTools
  /\ Len(chats[1].attrs) = 2
  /\ Len(calls) = 1
  /\ calls[1].outcome = "returned"
  /\ calls[1].session = 1
  /\ Len(chats[1].newMessages) = 1
  /\ chats[1].pc = "failed"
  /\ chats[1].errorAt = 2
  /\ chats[1].error = "No client found for server"
  /\ chats[1].answer = ""

\* The names of the servers getAllTools queried for chat c.
ListedNames(c) == {chats[c].listLog[i].name : i \in 1..Len(chats[c].listLog)}

\* The tagged tools of the first k queried servers whose name is in names
\* and whose query succeeded, in the order of the queries.
RECURSIVE ToolsOfListed(_, _, _)
ToolsOfListed(log, k, names) ==
  IF k = 0 THEN << >>
  ELSE ToolsOfListed(log, k - 1, names) \o
       (IF log[k].ok /\ log[k].name \in names
        THEN TaggedTools(log[k].session, log[k].name) ELSE << >>)

\* A request with a non-empty message is taken up whatever the state of
\* initializeClients, its listing does not make it fail, and once its chat
\* request was built the tool list of the request does not change.
AcceptedAndToolListKept ==
  [][\A c \in ChatIds :
       /\ (chats[c].pc = "idle" /\ chats'[c].pc # "idle" /\ chats'[c].userText # "") =>
             chats'[c].pc \in {"listing", "awaitModel"}
       /\ chats[c].pc = "listing" => chats'[c].pc \in {"listing", "awaitModel"}
       /\ chats[c].modelCalls > 0 =>
             /\ chats'[c].tools = chats[c].tools
             /\ chats'[c].hasTools = chats[c].hasTools]_vars

\* C24 as stated: a request is accepted while initializeClients is running
\* and does not fail in its listing; the tool list of its chat request holds
\* exactly the tools of the servers that were registered when getAllTools was
\* called for it (and answered the query), there is no tool list when there
\* are none, and the list stays the same for every model invocation.
C24_ToolsOfServersRegisteredAtStart ==
  /\ AcceptedAndToolListKept
  /\ [](\A c \in ChatIds :
          chats[c].modelCalls > 0 =>
             /\ ListedNames(c) = chats[c].registeredAtStart
             /\ chats[c].tools =
                  MCPToolToTool(ToolsOfListed(chats[c].listLog, Len(chats[c].listLog),
                                              chats[c].registeredAtStart))
             /\ chats[c].hasTools <=> chats[c].tools # << >>)

\* C24 amended: as above, but the servers whose tools are offered are the
\* ones registered when the listing ends: the ones registered when
\* getAllTools was called and the ones that registered while the listing was
\* waiting for a server's reply.
C24_ToolsOfServersRegisteredAtListingEnd ==
  /\ AcceptedAndToolListKept
  /\ [][\A c \in ChatIds :
          (chats[c].modelCalls = 0 /\ chats'[c].modelCalls = 1) =>
             {chats'[c].listLog[i].name : i \in 1..Len(chats'[c].listLog)}
               = RegistryNames(clients)]_vars
  /\ [](\A c \in ChatIds :
          chats[c].modelCalls > 0 =>
             /\ chats[c].registeredAtStart \subseteq ListedNames(c)
             /\ ListedNames(c) \subseteq RegistryNames(clients)
             /\ chats[c].tools =
                  MCPToolToTool(ToolsOfListed(chats[c].listLog, Len(chats[c].listLog),
                                              ListedNames(c)))
             /\ chats[c].hasTools <=> chats[c].tools # << >>)

\* C24 witness: a request arrived when only calc was registered, calc.eu
\* registered during its listing, the request was offered the tools of both,
\* and the model was invoked a second time with that list while
\* initializeClients had been running when the request arrived.
C24_Witness ==
  /\ chats[1].registeredAtStart = {<<"calc">>}
  /\ ListedNames(1) = {<<"calc">>, <<"calc", "eu">>}
  /\ chats[1].hasTools
  /\ Len(chats[1].tools) = 4
  /\ chats[1].modelCalls = 2

\* C25: for every request of a round, the arguments object the model emitted
\* stays as emitted, in the assistant message and as the sanitizer's input,
\* whatever the sanitizer did; a mapping the sanitizer returned is a value of
\* its own that holds input keys with their input values; and when the
\* schema lookup found nothing (no session registered under the parsed
\* server name, or no tool of the parsed tool name on that server) the
\* returned mapping holds exactly the keys whose value is not null, undefined
\* or the empty string.
C25_AbsentLookupStripsAllAndInputKept ==
  \A c \in ChatIds :
     \A i \in 1..Len(chats[c].attrs) :
        LET attr == chats[c].attrs[i]
            emitted == chats[c].messages[AssistantPos(c, chats[c].round)].tool_calls[i]
            absent == \/ attr.lookup = 0
                      \/ \A t \in 1..Len(RemoteTools(attr.lookup)) :
                            RemoteTools(attr.lookup)[t].name # attr.toolName
        IN
        /\ emitted \in Requests
        /\ attr.name = emitted.name
        /\ attr.arguments = emitted.arguments
        /\ attr.args.state = "fulfilled" =>
              /\ DOMAIN attr.args.value \subseteq DOMAIN attr.arguments
              /\ \A k \in DOMAIN attr.args.value : attr.args.value[k] = attr.arguments[k]
              /\ absent =>
                    DOMAIN attr.args.value =
                       {k \in DOMAIN attr.arguments :
                          attr.arguments[k] \notin {"null", "undefined", "''"}}

\* C25 witness: a request whose parsed tool name is no tool of the looked-up
\* server was sanitized after that server answered: the returned mapping
\* lost the key with value undefined and the emitted arguments still have it.
C25_Witness ==
  /\ Len(chats[1].attrs) >= 1
  /\ chats[1].attrs[1].lookup = 1
  /\ chats[1].attrs[1].toolName = <<"eu">>
  /\ chats[1].attrs[1].args.state = "fulfilled"
  /\ chats[1].attrs[1].args.value = EmptyObject
  /\ chats[1].attrs[1].arguments = [k \in {"q"} |-> "undefined"]
  /\ chats[1].messages[3].tool_calls[1].arguments = [k \in {"q"} |-> "undefined"]

====
